---- MODULE Spec2Model ----
(***************************************************************************)
(* The BadgerDB buffer manager (BufMgr) of src/buffer.cpp: a pool of       *)
(* NumBufs frames, a frame-descriptor table, the page hash table           *)
(* (file, pageNo) -> frameNo and the clock replacement policy.             *)
(*                                                                         *)
(* src/buffer.cpp holds the translation unit twice (lines 1-193 and        *)
(* 195-446).  The constructor, advanceClock, allocBuf and readPage are     *)
(* the same text in both; unPinPage, allocPage, flushFile and disposePage  *)
(* are modelled from the second, complete text (lines 325-426), where      *)
(* flushFile has a body.                                                   *)
(*                                                                         *)
(* Every public operation is one action: BufMgr is single threaded and an  *)
(* operation runs to completion (or to the exception it throws).           *)
(***************************************************************************)
EXTENDS Integers, Sequences, FiniteSets, TLC

\* ---------------------------------------------------------------- bounds
NumBufs  == 2      \* bufs, the constructor's argument
NumFiles == 2      \* File objects the callers use
MaxPage  == 2      \* page numbers a file can hold: 1..MaxPage
MaxPin   == 2      \* cap of pinCnt (std::uint32_t in the code)
MaxFaults == 1     \* File calls that throw in one behaviour

INVALID_NUMBER == 0            \* Page::INVALID_NUMBER
NullFile == 0                  \* the NULL File pointer

Frames  == 0 .. (NumBufs - 1)
Files   == 1 .. NumFiles
PageIds == 1 .. MaxPage

VARIABLES
    bufDescTable,   \* [Frames -> BufDesc]: file, pageNo, valid, dirty, refbit, pinCnt
    bufPool,        \* [Frames -> page_number() of the Page held in the slot]
    hashTable,      \* set of <<file, pageNo, frameNo>>: the entries of BufHashTbl
    clockHand,      \* the clock cursor
    filePages,      \* [Files -> set of page numbers allocated in the file]
    result,         \* how the last public call ended: "ok" or the exception
                    \* that reached the caller
    ioLog,          \* the File calls it made, in order
    victim,         \* the descriptor allocBuf evicted in it, as it was when chosen
    fault,          \* the File call that throws during the last public call
    faults,         \* how many File calls have thrown so far
    alive           \* the BufMgr has not been destroyed

vars == <<bufDescTable, bufPool, hashTable, clockHand, filePages,
          result, ioLog, victim, fault, faults, alive>>

\* The File calls that can throw, and "none": the file layer works.
Faults == {"none", "readPage", "writePage", "allocatePage", "deletePage"}

NoVictim == [frameNo |-> -1]

\* ------------------------------------------------------------- BufDesc
\* BufDesc::Clear(): the unused state, all metadata reset.
Clear(d) ==
    [d EXCEPT !.valid = FALSE, !.dirty = FALSE, !.refbit = FALSE,
              !.pinCnt = 0, !.file = NullFile, !.pageNo = INVALID_NUMBER]

\* BufDesc::Set(file, pageNo): the state right after a load.
Set(d, file, pageNo) ==
    [d EXCEPT !.valid = TRUE, !.dirty = FALSE, !.refbit = TRUE,
              !.pinCnt = 1, !.file = file, !.pageNo = pageNo]

\* A default-constructed BufDesc.
NewBufDesc ==
    [file |-> NullFile, pageNo |-> INVALID_NUMBER, valid |-> FALSE,
     dirty |-> FALSE, refbit |-> FALSE, pinCnt |-> 0]

\* ---------------------------------------------------------- BufHashTbl
\* The frames the table maps (file, pageNo) to.
HashFrames(ht, file, pageNo) ==
    {e[3] : e \in {x \in ht : x[1] = file /\ x[2] = pageNo}}

\* lookup finds the key (otherwise it throws HashNotFoundException).
HashFound(ht, file, pageNo) == HashFrames(ht, file, pageNo) # {}

\* lookup's frameNo for a key that is present.
HashLookup(ht, file, pageNo) == CHOOSE f \in HashFrames(ht, file, pageNo) : TRUE

\* insert of a key that is not present (a present key: HashAlreadyPresent).
HashInsert(ht, file, pageNo, frameNo) == ht \cup {<<file, pageNo, frameNo>>}

\* remove of a key that is present (an absent key: HashNotFoundException).
HashRemove(ht, file, pageNo) ==
    {x \in ht : ~(x[1] = file /\ x[2] = pageNo)}

\* ---------------------------------------------------------------- Init
\* BufMgr::BufMgr(bufs): every frame invalid, empty hash table, the hand on
\* the last frame.  The files exist before the manager, with any pages.
Init ==
    /\ bufDescTable = [f \in Frames |-> NewBufDesc]
    /\ bufPool = [f \in Frames |-> INVALID_NUMBER]
    /\ hashTable = {}
    /\ clockHand = NumBufs - 1
    /\ filePages \in [Files -> SUBSET PageIds]
    /\ result = "ok"
    /\ ioLog = <<>>
    /\ victim = NoVictim
    /\ fault = "none"
    /\ faults = 0
    /\ alive = TRUE

\* ------------------------------------------------------------ allocBuf
advanceClock(hand) == (hand + 1) % NumBufs

\* Evict with the hash table entry left behind.
EvictNoRemove(st, hand) ==
    LET d == st.desc[hand] IN
    [st EXCEPT
        !.found = TRUE,
        !.victim = [frameNo |-> hand, file |-> d.file, pageNo |-> d.pageNo,
                    valid |-> d.valid, dirty |-> d.dirty,
                    refbit |-> d.refbit, pinCnt |-> d.pinCnt],
        !.log = IF d.dirty
                THEN Append(@, <<"writePage", d.file, st.pool[hand]>>)
                ELSE @,
        !.desc[hand].dirty = FALSE]

\* Evict with the write-back of a dirty page left out.
EvictNoWrite(st, hand) ==
    LET d == st.desc[hand] IN
    IF ~HashFound(st.ht, d.file, d.pageNo)
    THEN [st EXCEPT !.exc = "HashNotFound"]
    ELSE [st EXCEPT
            !.found = TRUE,
            !.ht = HashRemove(st.ht, d.file, d.pageNo),
            !.victim = [frameNo |-> hand, file |-> d.file, pageNo |-> d.pageNo,
                        valid |-> d.valid, dirty |-> d.dirty,
                        refbit |-> d.refbit, pinCnt |-> d.pinCnt],
            !.desc[hand].dirty = FALSE]

\* The descriptor allocBuf's last branch evicts.  A writePage that throws
\* leaves the loop after the hash table entry is removed.
Evict(st, hand) ==
    LET d == st.desc[hand] IN
    IF ~HashFound(st.ht, d.file, d.pageNo)
    THEN [st EXCEPT !.exc = "HashNotFound"]
    ELSE IF d.dirty /\ st.fault = "writePage"
    THEN [st EXCEPT
            !.found = TRUE,
            !.ht = HashRemove(st.ht, d.file, d.pageNo),
            !.victim = [frameNo |-> hand, file |-> d.file, pageNo |-> d.pageNo,
                        valid |-> d.valid, dirty |-> d.dirty,
                        refbit |-> d.refbit, pinCnt |-> d.pinCnt],
            !.log = Append(@, <<"writePage", d.file, st.pool[hand]>>),
            !.exc = "IOError"]
    ELSE [st EXCEPT
            !.found = TRUE,
            !.ht = HashRemove(st.ht, d.file, d.pageNo),
            !.victim = [frameNo |-> hand, file |-> d.file, pageNo |-> d.pageNo,
                        valid |-> d.valid, dirty |-> d.dirty,
                        refbit |-> d.refbit, pinCnt |-> d.pinCnt],
            !.log = IF d.dirty
                    THEN Append(@, <<"writePage", d.file, st.pool[hand]>>)
                    ELSE @,
            !.desc[hand].dirty = FALSE]

\* FrameCase with the pinCnt test left out: a pinned frame is evictable.
FrameCaseNoPin(d) ==
    IF ~d.valid THEN "invalid"
    ELSE IF d.refbit THEN "referenced"
    ELSE "evictable"

\* The branch the loop body takes on the frame under the hand.
FrameCase(d) ==
    IF ~d.valid THEN "invalid"
    ELSE IF d.refbit THEN "referenced"
    ELSE IF d.pinCnt > 0 THEN "pinned"
    ELSE "evictable"

\* AllocBufLoop that gives up after NumBufs frames, one sweep.
RECURSIVE AllocBufLoopOneSweep(_)
AllocBufLoopOneSweep(st) ==
    IF ~(st.scanned < NumBufs) THEN [st EXCEPT !.scanned = NumBufs + 1]
    ELSE
      LET hand == advanceClock(st.hand)
          s1   == [st EXCEPT !.scanned = @ + 1, !.hand = hand]
          d    == st.desc[hand]
      IN  CASE FrameCase(d) = "invalid"    -> [s1 EXCEPT !.found = TRUE]
            [] FrameCase(d) = "referenced" ->
                   AllocBufLoopOneSweep([s1 EXCEPT !.desc[hand].refbit = FALSE])
            [] FrameCase(d) = "pinned"     -> AllocBufLoopOneSweep(s1)
            [] FrameCase(d) = "evictable"  -> Evict(s1, hand)

\* The while loop of allocBuf: st is the loop's state.
RECURSIVE AllocBufLoop(_)
AllocBufLoop(st) ==
    IF ~(st.scanned <= NumBufs) THEN st
    ELSE
      LET hand == advanceClock(st.hand)
          s1   == [st EXCEPT !.scanned = @ + 1, !.hand = hand]
          d    == st.desc[hand]
      IN  CASE FrameCase(d) = "invalid"    -> [s1 EXCEPT !.found = TRUE]
            [] FrameCase(d) = "referenced" ->
                   AllocBufLoop([s1 EXCEPT !.desc[hand].refbit = FALSE])
            [] FrameCase(d) = "pinned"     -> AllocBufLoop(s1)
            [] FrameCase(d) = "evictable"  -> Evict(s1, hand)

\* allocBuf with the BufferExceededException left out: the frame under the
\* hand is cleared and handed out.
allocBufNoThrow(desc, pool, ht, hand, k) ==
    LET st == AllocBufLoop([desc |-> desc, pool |-> pool, ht |-> ht,
                            hand |-> hand, scanned |-> 0, found |-> FALSE,
                            log |-> <<>>, victim |-> NoVictim, exc |-> "none",
                            fault |-> k])
    IN  IF st.exc # "none" THEN st
        ELSE [st EXCEPT !.desc[st.hand] = Clear(@)]

\* allocBuf(frame): the state it leaves; exc is the exception it throws
\* ("none": it returned, and frame = hand).  k is the File call that throws.
allocBuf(desc, pool, ht, hand, k) ==
    LET st == AllocBufLoop([desc |-> desc, pool |-> pool, ht |-> ht,
                            hand |-> hand, scanned |-> 0, found |-> FALSE,
                            log |-> <<>>, victim |-> NoVictim, exc |-> "none",
                            fault |-> k])
    IN  IF st.exc # "none" THEN st
        ELSE IF st.scanned > NumBufs /\ ~st.found
             THEN [st EXCEPT !.exc = "BufferExceeded"]
        ELSE [st EXCEPT !.desc[st.hand] = Clear(@)]

\* ------------------------------------------------------------ readPage
\* PinHit with the pinCnt++ left out.
PinHitNoCount(desc, frameNo) ==
    [desc EXCEPT ![frameNo].refbit = TRUE]

\* PinHit with the refbit left as it is.
PinHitNoRef(desc, frameNo) ==
    [desc EXCEPT ![frameNo].pinCnt = @ + 1]

\* The hit branch: set the refbit, count the pin.
PinHit(desc, frameNo) ==
    [desc EXCEPT ![frameNo].refbit = TRUE, ![frameNo].pinCnt = @ + 1]

\* InstallFrame with the Set() call left out.
InstallFrameNoSet(desc, frameNo, file, pageNo) == desc

\* bufDescTable[frameNo].Set(file, pageNo) of readPage and allocPage.
InstallFrame(desc, frameNo, file, pageNo) ==
    [desc EXCEPT ![frameNo] = Set(@, file, pageNo)]

ReadPage(file, pageNo) ==
    \E k \in Faults :
    /\ fault' = k
    /\ IF HashFound(hashTable, file, pageNo)
       THEN LET frameNo == HashLookup(hashTable, file, pageNo) IN
            /\ bufDescTable[frameNo].pinCnt < MaxPin
            /\ bufDescTable' = PinHit(bufDescTable, frameNo)
            /\ result' = "ok"
            /\ ioLog' = <<>>
            /\ victim' = NoVictim
            /\ UNCHANGED <<bufPool, hashTable, clockHand, filePages>>
       ELSE LET a == allocBuf(bufDescTable, bufPool, hashTable, clockHand, k)
                frameNo == a.hand
            IN  /\ clockHand' = a.hand
                /\ victim' = a.victim
                /\ UNCHANGED filePages
                /\ IF a.exc # "none"
                   THEN /\ bufDescTable' = a.desc
                        /\ hashTable' = a.ht
                        /\ ioLog' = a.log
                        /\ result' = a.exc
                        /\ UNCHANGED bufPool
                   ELSE IF pageNo \notin filePages[file] \/ k = "readPage"
                   THEN \* file->readPage(pageNo) throws
                        /\ bufDescTable' = a.desc
                        /\ hashTable' = a.ht
                        /\ ioLog' = Append(a.log, <<"readPage", file, pageNo>>)
                        /\ result' = IF k = "readPage" THEN "IOError"
                                      ELSE "InvalidPage"
                        /\ UNCHANGED bufPool
                   ELSE /\ bufPool' = [bufPool EXCEPT ![frameNo] = pageNo]
                        /\ ioLog' = Append(a.log, <<"readPage", file, pageNo>>)
                        /\ IF HashFound(a.ht, file, pageNo)
                           THEN /\ bufDescTable' = a.desc
                                /\ hashTable' = a.ht
                                /\ result' = "HashAlreadyPresent"
                           ELSE /\ hashTable' = HashInsert(a.ht, file, pageNo, frameNo)
                                /\ bufDescTable' =
                                     InstallFrame(a.desc, frameNo, file, pageNo)
                                /\ result' = "ok"

\* ----------------------------------------------------------- unPinPage
\* UnPinFrame with the pinCnt test left out: it decrements and returns.
UnPinFrameNoThrow(desc, frameNo, dirty) ==
    LET d1 == IF dirty THEN [desc EXCEPT ![frameNo].dirty = TRUE] ELSE desc
    IN  [desc |-> [d1 EXCEPT ![frameNo].pinCnt = @ - 1], exc |-> "none"]

\* UnPinFrame with dirty assigned from the argument, true or false.
UnPinFrameAssign(desc, frameNo, dirty) ==
    LET d1 == [desc EXCEPT ![frameNo].dirty = dirty]
    IN  IF d1[frameNo].pinCnt > 0
        THEN [desc |-> [d1 EXCEPT ![frameNo].pinCnt = @ - 1], exc |-> "none"]
        ELSE [desc |-> d1, exc |-> "PageNotPinned"]

\* The body of unPinPage once lookup has found frameNo: the descriptors it
\* leaves and the exception it throws ("none": it returns).
UnPinFrame(desc, frameNo, dirty) ==
    LET d1 == IF dirty THEN [desc EXCEPT ![frameNo].dirty = TRUE] ELSE desc
    IN  IF d1[frameNo].pinCnt > 0
        THEN [desc |-> [d1 EXCEPT ![frameNo].pinCnt = @ - 1], exc |-> "none"]
        ELSE [desc |-> d1, exc |-> "PageNotPinned"]

UnPinPage(file, pageNo, dirty) ==
    /\ fault' = "none"
    /\ ioLog' = <<>>
    /\ victim' = NoVictim
    /\ UNCHANGED <<bufPool, hashTable, clockHand, filePages>>
    /\ IF ~HashFound(hashTable, file, pageNo)
       THEN \* HashNotFoundException is caught: do nothing
            /\ result' = "ok"
            /\ UNCHANGED bufDescTable
       ELSE LET frameNo == HashLookup(hashTable, file, pageNo)
                u == UnPinFrame(bufDescTable, frameNo, dirty)
            IN  /\ bufDescTable' = u.desc
                /\ result' = IF u.exc = "none" THEN "ok" ELSE u.exc

\* ----------------------------------------------------------- allocPage
AllocPage(file) ==
    \E k \in Faults :
    LET a == allocBuf(bufDescTable, bufPool, hashTable, clockHand, k)
        frameNo == a.hand
    IN  /\ fault' = k
        /\ clockHand' = a.hand
        /\ victim' = a.victim
        /\ IF a.exc # "none"
           THEN /\ bufDescTable' = a.desc
                /\ hashTable' = a.ht
                /\ ioLog' = a.log
                /\ result' = a.exc
                /\ UNCHANGED <<bufPool, filePages>>
           ELSE IF k = "allocatePage"
           THEN \* file->allocatePage() throws, after allocBuf
                /\ bufDescTable' = a.desc
                /\ hashTable' = a.ht
                /\ ioLog' = Append(a.log, <<"allocatePage", file, INVALID_NUMBER>>)
                /\ result' = "IOError"
                /\ UNCHANGED <<bufPool, filePages>>
           ELSE \* file->allocatePage(): the file assigns a page number it
                \* does not hold yet
                \E pageNo \in PageIds \ filePages[file] :
                    /\ filePages' = [filePages EXCEPT ![file] = @ \cup {pageNo}]
                    /\ bufPool' = [bufPool EXCEPT ![frameNo] = pageNo]
                    /\ ioLog' = Append(a.log, <<"allocatePage", file, pageNo>>)
                    /\ IF HashFound(a.ht, file, pageNo)
                       THEN /\ bufDescTable' = a.desc
                            /\ hashTable' = a.ht
                            /\ result' = "HashAlreadyPresent"
                       ELSE /\ hashTable' = HashInsert(a.ht, file, pageNo, frameNo)
                            /\ bufDescTable' =
                                 InstallFrame(a.desc, frameNo, file, pageNo)
                            /\ result' = "ok"

\* ----------------------------------------------------------- flushFile
\* FlushFrame with the descriptor's Clear() left out.
FlushFrameNoClear(st, file, i) ==
    LET d == st.desc[i] IN
    IF d.valid /\ d.file = file
    THEN IF d.pageNo = INVALID_NUMBER THEN [st EXCEPT !.exc = "BadBuffer"]
         ELSE IF d.pinCnt > 0 THEN [st EXCEPT !.exc = "PagePinned"]
         ELSE [st EXCEPT
                 !.log = IF d.dirty
                         THEN Append(@, <<"writePage", d.file, st.pool[i]>>)
                         ELSE @,
                 !.ht = HashRemove(st.ht, d.file, d.pageNo),
                 !.desc[i].dirty = FALSE]
    ELSE st

\* FlushFrame with the write-back of a dirty page left out.
FlushFrameNoWrite(st, file, i) ==
    LET d == st.desc[i] IN
    IF d.valid /\ d.file = file
    THEN IF d.pageNo = INVALID_NUMBER THEN [st EXCEPT !.exc = "BadBuffer"]
         ELSE IF d.pinCnt > 0 THEN [st EXCEPT !.exc = "PagePinned"]
         ELSE [st EXCEPT
                 !.ht = HashRemove(st.ht, d.file, d.pageNo),
                 !.desc[i] = Clear(@)]
    ELSE st

\* FlushFrame with the pinCnt test left out.
FlushFrameNoPinCheck(st, file, i) ==
    LET d == st.desc[i] IN
    IF d.valid /\ d.file = file
    THEN IF d.pageNo = INVALID_NUMBER THEN [st EXCEPT !.exc = "BadBuffer"]
         ELSE [st EXCEPT
                 !.log = IF d.dirty
                         THEN Append(@, <<"writePage", d.file, st.pool[i]>>)
                         ELSE @,
                 !.ht = HashRemove(st.ht, d.file, d.pageNo),
                 !.desc[i] = Clear(@)]
    ELSE st

\* What flushFile does with frame i (st.exc = "none").
FlushFrame(st, file, i) ==
    LET d == st.desc[i] IN
    IF d.valid /\ d.file = file
    THEN IF d.pageNo = INVALID_NUMBER THEN [st EXCEPT !.exc = "BadBuffer"]
         ELSE IF d.pinCnt > 0 THEN [st EXCEPT !.exc = "PagePinned"]
         ELSE IF d.dirty /\ st.fault = "writePage"
              THEN [st EXCEPT
                      !.log = Append(@, <<"writePage", d.file, st.pool[i]>>),
                      !.exc = "IOError"]
         ELSE IF ~HashFound(st.ht, d.file, d.pageNo)
              THEN [st EXCEPT
                      !.log = IF d.dirty
                              THEN Append(@, <<"writePage", d.file, st.pool[i]>>)
                              ELSE @,
                      !.desc[i].dirty = FALSE,
                      !.exc = "HashNotFound"]
         ELSE [st EXCEPT
                 !.log = IF d.dirty
                         THEN Append(@, <<"writePage", d.file, st.pool[i]>>)
                         ELSE @,
                 !.ht = HashRemove(st.ht, d.file, d.pageNo),
                 !.desc[i] = Clear(@)]
    ELSE st  \* line 401 builds a BadBufferException and throws nothing

\* The for loop of flushFile from frame i on.
RECURSIVE FlushLoop(_, _, _)
FlushLoop(st, file, i) ==
    IF ~(i < NumBufs) \/ st.exc # "none" THEN st
    ELSE FlushLoop(FlushFrame(st, file, i), file, i + 1)

FlushFile(file) ==
    \E k \in Faults :
    LET st == FlushLoop([desc |-> bufDescTable, pool |-> bufPool,
                         ht |-> hashTable, log |-> <<>>, exc |-> "none",
                         fault |-> k],
                        file, 0)
    IN  /\ fault' = k
        /\ bufDescTable' = st.desc
        /\ hashTable' = st.ht
        /\ ioLog' = st.log
        /\ result' = IF st.exc = "none" THEN "ok" ELSE st.exc
        /\ victim' = NoVictim
        /\ UNCHANGED <<bufPool, clockHand, filePages>>

\* --------------------------------------------------------- disposePage
\* DisposeFrame that marks the frame invalid and leaves its other fields.
DisposeFrameKeepPin(desc, frameNo) == [desc EXCEPT ![frameNo].valid = FALSE]

\* What disposePage does with the frame of a resident page.
DisposeFrame(desc, frameNo) == [desc EXCEPT ![frameNo] = Clear(@)]

DisposePage(file, PageNo) ==
    \E k \in Faults :
    /\ fault' = k
    /\ victim' = NoVictim
    /\ UNCHANGED <<bufPool, clockHand>>
    /\ IF ~HashFound(hashTable, file, PageNo)
       THEN \* lookup throws HashNotFoundException, caught at line 422:
            \* file->deletePage is skipped
            /\ result' = "ok"
            /\ ioLog' = <<>>
            /\ UNCHANGED <<bufDescTable, hashTable, filePages>>
       ELSE LET frameNo == HashLookup(hashTable, file, PageNo)
                d == bufDescTable[frameNo]
            IN  IF ~HashFound(hashTable, d.file, d.pageNo)
                THEN \* remove throws HashNotFoundException, caught
                     /\ result' = "ok"
                     /\ ioLog' = <<>>
                     /\ UNCHANGED <<bufDescTable, hashTable, filePages>>
                ELSE /\ hashTable' = HashRemove(hashTable, d.file, d.pageNo)
                     /\ bufDescTable' = DisposeFrame(bufDescTable, frameNo)
                     /\ ioLog' = <<<<"deletePage", file, PageNo>>>>
                     /\ IF k = "deletePage"
                        THEN /\ result' = "IOError"
                             /\ UNCHANGED filePages
                        ELSE IF PageNo \in filePages[file]
                        THEN /\ filePages' = [filePages EXCEPT ![file] = @ \ {PageNo}]
                             /\ result' = "ok"
                        ELSE /\ result' = "InvalidPage"
                             /\ UNCHANGED filePages

\* ---------------------------------------------------------- ~BufMgr
\* The destructor: the loop over the frames writes nothing (the flushFile
\* call in it is commented out), then the tables are deleted.
Destroy ==
    /\ alive
    /\ alive' = FALSE
    /\ fault' = "none"
    /\ ioLog' = <<>>
    /\ result' = "ok"
    /\ victim' = NoVictim
    /\ UNCHANGED <<bufDescTable, bufPool, hashTable, clockHand, filePages,
                   faults>>

\* ---------------------------------------------------------------- Next
\* A public call on a live BufMgr during which the File call k throws (the
\* operations take fault' as the call that throws).
Env(k) ==
    /\ alive /\ alive' = alive
    /\ fault' = k
    /\ k # "none" => faults < MaxFaults
    /\ faults' = IF k = "none" THEN faults ELSE faults + 1

\* The callers' operations.  The file layer does not fail: readPage is
\* asked for pages the file holds.
Next ==
    \/ \E file \in Files, pageNo \in PageIds :
          /\ pageNo \in filePages[file]
          /\ Env("none")
          /\ ReadPage(file, pageNo)
    \/ \E file \in Files, pageNo \in PageIds, dirty \in BOOLEAN :
          Env("none") /\ UnPinPage(file, pageNo, dirty)
    \/ \E file \in Files : Env("none") /\ AllocPage(file)
    \/ \E file \in Files, pageNo \in PageIds :
          Env("none") /\ DisposePage(file, pageNo)
    \/ \E file \in Files : Env("none") /\ FlushFile(file)

Spec == Init /\ [][Next]_vars

\* A public call during which the File call k throws: the call is one that
\* reaches k, so the exception is what the caller gets.
EnvIO(k) == Env(k) /\ (k # "none" => result' = "IOError")

\* The files the callers use while the file layer can fail.
IOFiles == {1}

\* The callers' operations with a file layer that can fail: any one kind of
\* File call throws during a public call, at most MaxFaults times, and the
\* callers work on the files IOFiles.
NextIO ==
    \/ \E file \in IOFiles, pageNo \in PageIds, k \in {"none", "readPage", "writePage"} :
          /\ pageNo \in filePages[file]
          /\ Env(k)
          /\ ReadPage(file, pageNo)
          /\ EnvIO(k)
    \/ \E file \in IOFiles, pageNo \in PageIds, dirty \in BOOLEAN :
          Env("none") /\ UnPinPage(file, pageNo, dirty)
    \/ \E file \in IOFiles, k \in {"none", "allocatePage", "writePage"} :
          Env(k) /\ AllocPage(file) /\ EnvIO(k)
    \/ \E file \in IOFiles, pageNo \in PageIds, k \in {"none", "deletePage"} :
          Env(k) /\ DisposePage(file, pageNo) /\ EnvIO(k)
    \/ \E file \in IOFiles, k \in {"none", "writePage"} :
          Env(k) /\ FlushFile(file) /\ EnvIO(k)

SpecIO == Init /\ [][NextIO]_vars

\* The callers' operations and, at the end, the destruction of the BufMgr.
NextD == Next \/ Destroy

SpecD == Init /\ [][NextD]_vars

\* ------------------------------------------------------------ helpers
\* Frame f holds page (file, pageNo) in the descriptor table desc.
Holds(desc, f, file, pageNo) ==
    desc[f].valid /\ desc[f].file = file /\ desc[f].pageNo = pageNo

\* The frames of desc that hold (file, pageNo).
FramesOf(desc, file, pageNo) == {f \in Frames : Holds(desc, f, file, pageNo)}

\* The step is a readPage or an allocPage call.
ReadOrAllocStep ==
    \/ \E file \in Files, pageNo \in PageIds : ReadPage(file, pageNo)
    \/ \E file \in Files : AllocPage(file)

\* The writePage calls of a log.
Writes(log) == SelectSeq(log, LAMBDA c : c[1] = "writePage")

\* ------------------------------------------------------------------ C1
\* C1: in every reachable state a frame is valid iff the hash table maps
\* its (file, pageNo) to it, and every hash table entry points to a valid
\* frame that holds exactly the entry's key.
C1_IndexMatchesFrames ==
    /\ \A f \in Frames :
          bufDescTable[f].valid <=>
             <<bufDescTable[f].file, bufDescTable[f].pageNo, f>> \in hashTable
    /\ \A e \in hashTable :
          /\ e[3] \in Frames
          /\ Holds(bufDescTable, e[3], e[1], e[2])

\* C1 witness: a call has just evicted a page and the table is full again.
C1_Witness ==
    /\ victim # NoVictim
    /\ result = "ok"
    /\ Cardinality(hashTable) = NumBufs

\* ------------------------------------------------------------------ C2
\* C2: no two distinct valid frames hold the same (file, pageNo).
C2_NoDuplicateResidency ==
    \A f, g \in Frames :
        (f # g /\ bufDescTable[f].valid /\ bufDescTable[g].valid) =>
            ~(/\ bufDescTable[f].file = bufDescTable[g].file
              /\ bufDescTable[f].pageNo = bufDescTable[g].pageNo)

\* C2 witness: every frame is valid, all of one file, after an eviction.
C2_Witness ==
    /\ victim # NoVictim
    /\ \A f \in Frames : bufDescTable[f].valid
    /\ \A f, g \in Frames : bufDescTable[f].file = bufDescTable[g].file

\* ------------------------------------------------------------------ C3
\* C3: in a readPage or allocPage step, the frame allocBuf evicts was, when
\* chosen, valid with refbit = false and pinCnt = 0; every frame that is
\* valid and pinned before the step still holds the same page after it,
\* with its hash table entry; a valid frame loses its page only as victim.
EvictsOnlyUnpinned ==
    /\ victim' # NoVictim =>
          /\ victim'.valid /\ ~victim'.refbit /\ victim'.pinCnt = 0
          /\ Holds(bufDescTable, victim'.frameNo, victim'.file, victim'.pageNo)
          /\ bufDescTable[victim'.frameNo].pinCnt = 0
    /\ \A f \in Frames :
          (bufDescTable[f].valid /\ bufDescTable[f].pinCnt > 0) =>
              /\ Holds(bufDescTable', f, bufDescTable[f].file, bufDescTable[f].pageNo)
              /\ bufDescTable'[f].pinCnt >= bufDescTable[f].pinCnt
              /\ <<bufDescTable[f].file, bufDescTable[f].pageNo, f>> \in hashTable'
    /\ \A f \in Frames :
          (/\ bufDescTable[f].valid
           /\ ~Holds(bufDescTable', f, bufDescTable[f].file, bufDescTable[f].pageNo))
              => victim' # NoVictim /\ victim'.frameNo = f

C3_EvictsOnlyUnpinned == [][ReadOrAllocStep => EvictsOnlyUnpinned]_vars

\* C3 witness: a call has just evicted a page while another frame was pinned.
C3_Witness ==
    /\ victim # NoVictim
    /\ \E f \in Frames : f # victim.frameNo /\ bufDescTable[f].pinCnt > 0

\* ------------------------------------------------------------------ C4
\* Every frame is valid and pinned.
AllPinned ==
    \A f \in Frames : bufDescTable[f].valid /\ bufDescTable[f].pinCnt > 0

\* The step is a readPage of a page that is not resident, or an allocPage.
MissOrAllocStep ==
    \/ \E file \in Files, pageNo \in PageIds :
          ~HashFound(hashTable, file, pageNo) /\ ReadPage(file, pageNo)
    \/ \E file \in Files : AllocPage(file)

\* The step leaves the resident set as it was.
ResidentSetUnchanged ==
    /\ hashTable' = hashTable
    /\ \A f \in Frames :
          /\ bufDescTable'[f].valid = bufDescTable[f].valid
          /\ bufDescTable'[f].file = bufDescTable[f].file
          /\ bufDescTable'[f].pageNo = bufDescTable[f].pageNo
          /\ bufDescTable'[f].pinCnt = bufDescTable[f].pinCnt
          /\ bufDescTable'[f].dirty = bufDescTable[f].dirty

\* C4: when every frame is valid and pinned, a readPage miss or an allocPage
\* fails with BufferExceeded and leaves the resident set unchanged.
C4_ExceededKeepsResidentSet ==
    [][(AllPinned /\ MissOrAllocStep) =>
          (result' = "BufferExceeded" /\ ResidentSetUnchanged)]_vars

\* C4 witness: the call has failed with BufferExceeded on a full pinned pool.
C4_Witness == AllPinned /\ result = "BufferExceeded"

\* ------------------------------------------------------------------ C5
\* C5: when some frame is invalid or has pinCnt = 0, a readPage miss or an
\* allocPage does not raise BufferExceeded.
C5_ExceededOnlyWhenAllPinned ==
    [][((\E f \in Frames : ~bufDescTable[f].valid \/ bufDescTable[f].pinCnt = 0)
         /\ MissOrAllocStep) => result' # "BufferExceeded"]_vars

\* ------------------------------------------------------------------ C6
\* C6: in a readPage or allocPage step, a frame that loses its page had, if
\* it was dirty, exactly one writePage of that page on its file, made before
\* the load into the frame; without a dirty frame evicted there is no
\* writePage.
WritebackBeforeEvict ==
    LET lost == {f \in Frames :
                   /\ bufDescTable[f].valid
                   /\ ~Holds(bufDescTable', f, bufDescTable[f].file,
                             bufDescTable[f].pageNo)}
    IN  /\ \A f \in lost :
              IF bufDescTable[f].dirty
              THEN /\ Writes(ioLog') =
                        <<<<"writePage", bufDescTable[f].file, bufDescTable[f].pageNo>>>>
                   /\ ioLog'[1][1] = "writePage"
                   /\ bufPool[f] = bufDescTable[f].pageNo
                   /\ victim'.frameNo = f /\ victim'.dirty
              ELSE Writes(ioLog') = <<>>
        /\ lost = {} => Writes(ioLog') = <<>>

C6_WritebackBeforeEvict == [][ReadOrAllocStep => WritebackBeforeEvict]_vars

\* C6 witness: the call has evicted a dirty frame and loaded its page.
C6_Witness ==
    /\ victim # NoVictim
    /\ victim.dirty
    /\ result = "ok"
    /\ Len(ioLog) = 2

\* ------------------------------------------------------------------ C7
\* pinCnt of the frame that holds (file, pageNo), 0 for a non-resident page.
PinCntOf(desc, file, pageNo) ==
    IF FramesOf(desc, file, pageNo) = {} THEN 0
    ELSE desc[CHOOSE f \in FramesOf(desc, file, pageNo) : TRUE].pinCnt

\* Every frame but those holding (file, pageNo) after the step, and but the
\* frame evicted in the step, keeps its pinCnt.
OtherPinsKept(file, pageNo) ==
    \A f \in Frames :
        (/\ f \notin FramesOf(bufDescTable', file, pageNo)
         /\ ~(victim' # NoVictim /\ victim'.frameNo = f))
            => bufDescTable'[f].pinCnt = bufDescTable[f].pinCnt

\* C7: a successful readPage leaves the page's pinCnt one higher than before
\* (0 for a non-resident page), a successful unPinPage of a resident pinned
\* page one lower, and no other frame's pinCnt changes.
C7_PinCounting ==
    [][\A file \in Files, pageNo \in PageIds :
          /\ (ReadPage(file, pageNo) /\ result' = "ok") =>
                /\ FramesOf(bufDescTable', file, pageNo) # {}
                /\ PinCntOf(bufDescTable', file, pageNo)
                      = PinCntOf(bufDescTable, file, pageNo) + 1
                /\ OtherPinsKept(file, pageNo)
          /\ \A dirty \in BOOLEAN :
                (/\ PinCntOf(bufDescTable, file, pageNo) > 0
                 /\ UnPinPage(file, pageNo, dirty)
                 /\ result' = "ok") =>
                    /\ FramesOf(bufDescTable', file, pageNo)
                          = FramesOf(bufDescTable, file, pageNo)
                    /\ PinCntOf(bufDescTable', file, pageNo)
                          = PinCntOf(bufDescTable, file, pageNo) - 1
                    /\ OtherPinsKept(file, pageNo)]_vars

\* C7 witness: a page is pinned twice while another page is pinned once.
C7_Witness ==
    /\ result = "ok"
    /\ \E f, g \in Frames :
          bufDescTable[f].pinCnt >= 2 /\ bufDescTable[g].pinCnt = 1

\* ------------------------------------------------------------------ C8
\* C8: unPinPage of a resident page whose pinCnt is 0 fails with
\* PageNotPinned for either value of dirty, and no pinCnt is ever below 0.
C8_UnpinAtZeroFails ==
    [][/\ \A f \in Frames : bufDescTable'[f].pinCnt >= 0
       /\ \A file \in Files, pageNo \in PageIds, dirty \in BOOLEAN :
            (/\ FramesOf(bufDescTable, file, pageNo) # {}
             /\ PinCntOf(bufDescTable, file, pageNo) = 0
             /\ UnPinPage(file, pageNo, dirty)) =>
                /\ result' = "PageNotPinned"
                /\ PinCntOf(bufDescTable', file, pageNo) = 0]_vars

\* C8 witness: an unPinPage has failed with PageNotPinned.
C8_Witness ==
    /\ result = "PageNotPinned"
    /\ \E f \in Frames : bufDescTable[f].valid /\ bufDescTable[f].pinCnt = 0

\* ------------------------------------------------------------------ C9
\* C9: a frame's dirty flag goes from true to false only in a step that
\* writes the frame's page back (eviction, flushFile) or that is the
\* disposePage of its page; unPinPage and a readPage hit keep it.
C9_DirtySticky ==
    [][/\ \A f \in Frames :
            (bufDescTable[f].dirty /\ ~bufDescTable'[f].dirty) =>
               LET w == <<"writePage", bufDescTable[f].file, bufDescTable[f].pageNo>>
               IN  \/ \E i \in 1 .. Len(ioLog') : ioLog'[i] = w
                   \/ DisposePage(bufDescTable[f].file, bufDescTable[f].pageNo)
       /\ \A file \in Files, pageNo \in PageIds :
            (\/ \E dirty \in BOOLEAN : UnPinPage(file, pageNo, dirty)
             \/ HashFound(hashTable, file, pageNo) /\ ReadPage(file, pageNo)) =>
                \A f \in Frames : bufDescTable[f].dirty => bufDescTable'[f].dirty
      ]_vars

\* C9 witness: a frame that was unpinned dirty is dirty, resident and unpinned.
C9_Witness ==
    \E f \in Frames :
        /\ bufDescTable[f].dirty
        /\ bufDescTable[f].pinCnt = 0
        /\ bufDescTable[f].refbit
        /\ result = "PageNotPinned"

\* ----------------------------------------------------------------- C10
\* No resident page of the file is pinned.
NonePinned(file) ==
    \A f \in Frames :
        (bufDescTable[f].valid /\ bufDescTable[f].file = file) =>
            bufDescTable[f].pinCnt = 0

\* How many calls of log equal c.
CountCalls(log, c) == Cardinality({i \in 1 .. Len(log) : log[i] = c})

\* C10: flushFile of a file with no pinned resident page succeeds; after it
\* no frame is valid with the file and the hash table has no entry of the
\* file; each dirty frame of the file had one writePage and each clean one
\* none; frames and entries of other files are unchanged.
C10_FlushFile ==
    [][\A file \in Files :
          (NonePinned(file) /\ FlushFile(file)) =>
             /\ result' = "ok"
             /\ \A f \in Frames :
                   ~(bufDescTable'[f].valid /\ bufDescTable'[f].file = file)
             /\ \A e \in hashTable' : e[1] # file
             /\ \A f \in Frames :
                   (bufDescTable[f].valid /\ bufDescTable[f].file = file) =>
                       CountCalls(ioLog', <<"writePage", file, bufDescTable[f].pageNo>>)
                          = IF bufDescTable[f].dirty THEN 1 ELSE 0
             /\ Len(ioLog') = Cardinality({f \in Frames :
                                  /\ bufDescTable[f].valid
                                  /\ bufDescTable[f].file = file
                                  /\ bufDescTable[f].dirty})
             /\ \A f \in Frames :
                   ~(bufDescTable[f].valid /\ bufDescTable[f].file = file) =>
                       bufDescTable'[f] = bufDescTable[f]
             /\ {e \in hashTable' : e[1] # file} = {e \in hashTable : e[1] # file}
      ]_vars

\* C10 witness: a flushFile has written a dirty page back and left the
\* other file's page resident.
C10_Witness ==
    /\ result = "ok"
    /\ victim = NoVictim
    /\ Len(ioLog) >= 1
    /\ \A i \in 1 .. Len(ioLog) : ioLog[i][1] = "writePage"
    /\ \E f \in Frames : bufDescTable[f].valid /\ bufDescTable[f].file # ioLog[1][2]

\* ------------------------------------------------------------------ C11
\* The frames of file that are valid and pinned.
PinnedOf(file) ==
    {f \in Frames : bufDescTable[f].valid /\ bufDescTable[f].file = file
                    /\ bufDescTable[f].pinCnt > 0}

\* The first frame of file that is valid and pinned.
FirstPinned(file) == CHOOSE p \in PinnedOf(file) : \A q \in PinnedOf(file) : p <= q

\* The frames of file that flushFile reaches before frame p.
FlushedBefore(file, p) ==
    {f \in Frames : f < p /\ bufDescTable[f].valid /\ bufDescTable[f].file = file}

\* flushFile(file) stopped at frame p: the frames of file before p are
\* written if dirty and cleared, every other frame is as it was.
StoppedAtFirstPinned(file, p) ==
    /\ result' = "PagePinned"
    /\ \A f \in FlushedBefore(file, p) :
          /\ bufDescTable'[f] = Clear(bufDescTable[f])
          /\ ~HashFound(hashTable', file, bufDescTable[f].pageNo)
          /\ bufDescTable[f].dirty =>
                CountCalls(ioLog', <<"writePage", file, bufPool[f]>>) >= 1
    /\ \A f \in Frames \ FlushedBefore(file, p) :
          /\ bufDescTable'[f] = bufDescTable[f]
          /\ \A g \in Files, n \in PageIds :
                <<g, n, f>> \in hashTable <=> <<g, n, f>> \in hashTable'
    /\ Len(Writes(ioLog')) =
          Cardinality({f \in FlushedBefore(file, p) : bufDescTable[f].dirty})
    /\ Len(ioLog') = Len(Writes(ioLog'))
    /\ bufPool' = bufPool
    /\ FlushedBefore(file, p) = {} =>
          /\ bufDescTable' = bufDescTable
          /\ hashTable' = hashTable
          /\ ioLog' = <<>>

\* C11: flushFile(file) scans the frames in increasing order and fails with
\* PagePinned at the first valid frame of the file with pinCnt > 0: the
\* frames of the file before it are flushed and cleared, that frame and all
\* later frames are unchanged (no write, still resident); when the only
\* resident page of the file is pinned, nothing changes and nothing is written.
C11_FlushStopsAtFirstPinned ==
    [][\A file \in Files :
          (FlushFile(file) /\ PinnedOf(file) # {}) =>
              StoppedAtFirstPinned(file, FirstPinned(file))]_vars

\* A flushFile has failed with PagePinned after writing and clearing an
\* earlier frame of the file.
C11_Witness ==
    /\ result = "PagePinned"
    /\ Len(ioLog) = 1
    /\ ioLog[1][1] = "writePage"
    /\ \E f, p \in Frames :
          /\ f < p
          /\ ~bufDescTable[f].valid
          /\ bufDescTable[p].valid /\ bufDescTable[p].pinCnt > 0
          /\ bufDescTable[p].file = ioLog[1][2]

\* ------------------------------------------------------------------ C12
\* What disposePage(file, pageNo) leaves of a resident page: no hash entry,
\* its frame cleared, nothing written, the other frames as they were.
DisposedResident(file, pageNo) ==
    LET f == HashLookup(hashTable, file, pageNo) IN
    /\ ~HashFound(hashTable', file, pageNo)
    /\ ~bufDescTable'[f].valid
    /\ bufDescTable'[f].pinCnt = 0
    /\ ~bufDescTable'[f].dirty
    /\ Writes(ioLog') = <<>>
    /\ \A g \in Frames \ {f} : bufDescTable'[g] = bufDescTable[g]

\* C12: disposePage(file, pageNo) calls file.deletePage(pageNo) exactly once
\* whether or not the page is resident; a resident page loses its hash entry
\* and its frame is cleared without a writePage, other frames are unchanged.
C12_DisposeDeletesOnce ==
    [][\A file \in Files, pageNo \in PageIds :
          DisposePage(file, pageNo) =>
              /\ CountCalls(ioLog', <<"deletePage", file, pageNo>>) = 1
              /\ HashFound(hashTable, file, pageNo) =>
                    DisposedResident(file, pageNo)]_vars

\* ------------------------------------------------------------------ C13
\* C13: when the BufMgr is destroyed, every frame that is valid and dirty at
\* that moment has its page written back to its file before the pool is
\* released; a pinned frame at destruction is not an error.
C13_DestructorWritesDirty ==
    [][Destroy =>
          /\ \A f \in Frames :
                (bufDescTable[f].valid /\ bufDescTable[f].dirty) =>
                    CountCalls(ioLog', <<"writePage", bufDescTable[f].file,
                                         bufPool[f]>>) >= 1
          /\ result' = "ok"]_vars

\* ------------------------------------------------------------------ C14
\* The hash table and the valid frames describe the same resident set, and
\* no page is resident twice.
IndexConsistent ==
    /\ \A f \in Frames :
          bufDescTable[f].valid <=>
             HashFrames(hashTable, bufDescTable[f].file, bufDescTable[f].pageNo) = {f}
    /\ \A e \in hashTable : Holds(bufDescTable, e[3], e[1], e[2])
    /\ \A file \in Files, pageNo \in PageIds :
          Cardinality(FramesOf(bufDescTable, file, pageNo)) <= 1

\* The last call has failed in file.readPage and the page it was loading
\* has a hash table entry.
FailedLoadIndexed ==
    /\ fault = "readPage"
    /\ Len(ioLog) > 0
    /\ HashFound(hashTable, ioLog[Len(ioLog)][2], ioLog[Len(ioLog)][3])

\* C14: when a file-layer call (readPage, writePage, allocatePage or
\* deletePage) has failed inside a public operation and the error has
\* reached the caller, every valid frame has its hash table entry and vice
\* versa, no page is held by two frames, and no hash table entry exists for
\* a page whose load failed.
C14_IOErrorKeepsInvariants ==
    result = "IOError" => IndexConsistent /\ ~FailedLoadIndexed

\* ------------------------------------------------------------------ C15
\* C15: HashNotFound never escapes a public operation: readPage, unPinPage
\* and disposePage of a page that is not resident treat the miss silently
\* (unPinPage returns with no state change), and allocPage, flushFile and
\* the eviction inside allocBuf never raise it in any reachable state.
C15_HashNotFoundNeverEscapes ==
    [][/\ result' # "HashNotFound"
       /\ \A file \in Files, pageNo \in PageIds, dirty \in BOOLEAN :
             (UnPinPage(file, pageNo, dirty) /\ ~HashFound(hashTable, file, pageNo))
                => UNCHANGED <<bufDescTable, bufPool, hashTable, clockHand,
                               filePages>>]_vars

\* ------------------------------------------------------------------ C16
\* C16: after any sequence of public operations every frame with pinCnt > 0
\* is valid, also after disposePage of a page that is still pinned and
\* after a failed operation.
C16_PinnedIsValid ==
    \A f \in Frames : bufDescTable[f].pinCnt > 0 => bufDescTable[f].valid

\* A page has just been disposed of out of its frame while another frame
\* is pinned.
C16_Witness ==
    /\ Len(ioLog) = 1
    /\ ioLog[1][1] = "deletePage"
    /\ \E f, g \in Frames :
          /\ ~bufDescTable[f].valid
          /\ bufPool[f] = ioLog[1][3]
          /\ bufDescTable[g].valid /\ bufDescTable[g].pinCnt > 0

\* ------------------------------------------------------------------ C17
\* The last file call of the step.
LastCall == ioLog'[Len(ioLog')]

\* Page (file, pageNo) is resident after the step in exactly one frame,
\* freshly set, with its hash table entry.
FreshlyResident(file, pageNo) ==
    /\ Cardinality(FramesOf(bufDescTable', file, pageNo)) = 1
    /\ \A f \in FramesOf(bufDescTable', file, pageNo) :
          /\ bufDescTable'[f].pinCnt = 1
          /\ bufDescTable'[f].refbit
          /\ ~bufDescTable'[f].dirty
          /\ HashFrames(hashTable', file, pageNo) = {f}
          /\ bufPool'[f] = pageNo
          /\ clockHand' = f

\* C17: a successful allocPage(file) leaves the page resident in exactly one
\* frame under the page number the file layer assigned (the one returned to
\* the caller), with pinCnt = 1, refbit = true, dirty = false and a hash
\* table entry for (file, pageNo) pointing to that frame.
C17_AllocPageInstalls ==
    [][\A file \in Files :
          (AllocPage(file) /\ result' = "ok") =>
              /\ Len(ioLog') > 0
              /\ LastCall[1] = "allocatePage" /\ LastCall[2] = file
              /\ LastCall[3] \in filePages'[file] \ filePages[file]
              /\ FreshlyResident(file, LastCall[3])]_vars

\* An allocPage has succeeded after evicting a page.
C17_Witness ==
    /\ result = "ok"
    /\ victim # NoVictim
    /\ Len(ioLog) > 0
    /\ ioLog[Len(ioLog)][1] = "allocatePage"
    /\ \E f \in Frames :
          /\ Holds(bufDescTable, f, ioLog[Len(ioLog)][2], ioLog[Len(ioLog)][3])
          /\ bufDescTable[f].pinCnt = 1

\* ------------------------------------------------------------------ C18
\* Every frame is valid and unpinned with its refbit set.
AllReferenced ==
    \A f \in Frames :
        /\ bufDescTable[f].valid
        /\ bufDescTable[f].pinCnt = 0
        /\ bufDescTable[f].refbit

\* The frame after the hand is valid and unpinned with its refbit clear.
NextIsEvictable ==
    LET n == (clockHand + 1) % NumBufs IN
    /\ bufDescTable[n].valid
    /\ bufDescTable[n].pinCnt = 0
    /\ ~bufDescTable[n].refbit

\* The step loads its page into the frame after the hand, evicting the page
\* that was there.
EvictsNextFrame(file, pageNo) ==
    LET n == (clockHand + 1) % NumBufs IN
    /\ result' = "ok"
    /\ victim' # NoVictim
    /\ victim'.frameNo = n
    /\ victim'.file = bufDescTable[n].file
    /\ victim'.pageNo = bufDescTable[n].pageNo
    /\ clockHand' = n
    /\ Holds(bufDescTable', n, file, pageNo)
    /\ \A f \in Frames \ {n} :
          /\ bufDescTable'[f].valid = bufDescTable[f].valid
          /\ bufDescTable'[f].file = bufDescTable[f].file
          /\ bufDescTable'[f].pageNo = bufDescTable[f].pageNo
          /\ bufDescTable'[f].pinCnt = bufDescTable[f].pinCnt

\* C18: clock order.  When all frames are valid, unpinned and have their
\* refbit set, a readPage miss evicts the frame at (clockHand + 1) mod
\* NumBufs: the first sweep clears every refbit and the step after it picks
\* the first frame revisited.  Each following miss evicts the next frame in
\* cyclic order: a miss that finds the frame after the hand valid, unpinned
\* and with its refbit clear evicts that frame.
C18_ClockOrder ==
    [][\A file \in Files, pageNo \in PageIds :
          (/\ ReadPage(file, pageNo)
           /\ ~HashFound(hashTable, file, pageNo)
           /\ AllReferenced \/ NextIsEvictable)
             => /\ EvictsNextFrame(file, pageNo)
                /\ AllReferenced =>
                      \A f \in Frames \ {clockHand'} : ~bufDescTable'[f].refbit]_vars

\* Two misses in a row have evicted: the last one took the frame after the
\* one the miss before it had loaded, whose refbit the sweep had cleared.
C18_Witness ==
    /\ result = "ok"
    /\ victim # NoVictim
    /\ victim.frameNo = clockHand
    /\ Len(ioLog) > 0
    /\ ioLog[Len(ioLog)][1] = "readPage"
    /\ \A f \in Frames : bufDescTable[f].valid
    /\ \E f \in Frames \ {clockHand} :
          ~bufDescTable[f].refbit /\ bufDescTable[f].pinCnt = 0

\* ------------------------------------------------------------------ C19
\* C19: a readPage of a page that is already resident is a hit: it calls
\* neither file.readPage nor file.writePage, does not move the clock hand,
\* evicts nothing, sets that frame's refbit, and changes no other frame and
\* no hash table entry.
C19_HitTouchesOnlyItsFrame ==
    [][\A file \in Files, pageNo \in PageIds :
          (ReadPage(file, pageNo) /\ HashFound(hashTable, file, pageNo)) =>
              LET f == HashLookup(hashTable, file, pageNo) IN
              /\ result' = "ok"
              /\ ioLog' = <<>>
              /\ clockHand' = clockHand
              /\ victim' = NoVictim
              /\ hashTable' = hashTable
              /\ bufPool' = bufPool
              /\ filePages' = filePages
              /\ bufDescTable'[f].refbit
              /\ Holds(bufDescTable', f, file, pageNo)
              /\ bufDescTable'[f].dirty = bufDescTable[f].dirty
              /\ \A g \in Frames \ {f} : bufDescTable'[g] = bufDescTable[g]]_vars

\* A hit on a frame whose refbit a sweep of the clock had cleared: the
\* frame is pinned twice with its refbit set and no file call was made.
C19_Witness ==
    /\ result = "ok"
    /\ ioLog = <<>>
    /\ victim = NoVictim
    /\ \E f \in Frames :
          /\ bufDescTable[f].valid
          /\ bufDescTable[f].pinCnt = 2
          /\ bufDescTable[f].refbit
          /\ \E g \in Frames \ {f} : bufDescTable[g].valid /\ ~bufDescTable[g].refbit

\* ------------------------------------------------------------------ C20
\* C20: an unPinPage call that fails with PageNotPinned leaves the whole
\* buffer manager state unchanged; in particular it does not set the
\* frame's dirty flag, even when called with dirty = true.
C20_FailedUnpinChangesNothing ==
    [][\A file \in Files, pageNo \in PageIds, dirty \in BOOLEAN :
          (UnPinPage(file, pageNo, dirty) /\ result' = "PageNotPinned") =>
              UNCHANGED <<bufDescTable, bufPool, hashTable, clockHand,
                          filePages>>]_vars

====
